---- MODULE Spec2Model ----
(***************************************************************************)
(* Task tracking and pipeline orchestration of kx-creation:                *)
(*   client/main.py                 the task store (tasks, create_task,    *)
(*                                  update_task), the two background       *)
(*                                  processors and the HTTP handlers       *)
(*   client/agents/orchestrator.py  AgentOrchestrator.url_to_article and   *)
(*                                  url_to_wechat                          *)
(*   client/agents/*_agent.py       the crawl / analyze / write / publish  *)
(*                                  convenience methods the orchestrator   *)
(*                                  calls                                  *)
(*                                                                         *)
(* The processors are coroutines without an await: once one starts on the  *)
(* event loop it runs to its end before any other handler or processor     *)
(* runs.  The variable loop holds the task whose processor occupies the    *)
(* event loop; the steps of one processor are separate actions so that the *)
(* intermediate contents of the store are states of the model.             *)
(***************************************************************************)
EXTENDS Integers, Sequences, FiniteSets, TLC

VARIABLES
    tasks,          \* main.tasks: task_id -> record (a Python dict)
    orchestrator,   \* agents.orchestrator.orchestrator: "None" or "ready"
    bg,             \* the background processor added for each task: its
                    \* function, position and local variables
    loop,           \* task whose processor is running on the event loop, or NoTask
    calls,          \* history: per task, the stage invocations made and how each returned
    now,            \* datetime.now()
    response        \* the HTTP response of the request handled last

vars == <<tasks, orchestrator, bg, loop, calls, now, response>>

(***************************************************************************)
(* Bounds                                                                  *)
(***************************************************************************)
MaxTasks == 2       \* number of task ids (submissions) explored
MaxClock == 1       \* datetime.now() takes the values 0..MaxClock

Ids == 1..MaxTasks
NoTask == 0
NoTime == 0 - 1     \* a timestamp field holding None
None == "None"      \* a string-valued field holding None

(***************************************************************************)
(* models/schemas.py: TaskStatus                                           *)
(***************************************************************************)
PENDING == "pending"
PROCESSING == "processing"
COMPLETED == "completed"
FAILED == "failed"
TaskStatus == {PENDING, PROCESSING, COMPLETED, FAILED}

(***************************************************************************)
(* The dictionaries the stages return.  falsy: None or an empty dict;      *)
(* hasError: the key "error" is present; error: its value; success: the    *)
(* value of the key "success" is truthy; payload: what the rest holds.     *)
(***************************************************************************)
StageDict(stage, falsy, hasError, error, success, payload) ==
    [stage |-> stage, falsy |-> falsy, hasError |-> hasError, error |-> error,
     success |-> success, payload |-> payload]

ErrorDict(stage, msg) == StageDict(stage, FALSE, TRUE, msg, FALSE, "error")

\* data = None
NoneData == [none |-> TRUE]
\* a local variable not assigned yet
Unset == [unset |-> TRUE]

(***************************************************************************)
(* main.py: the task store                                                 *)
(***************************************************************************)
\* uuid4 returning an id whether or not an earlier call returned it
uuid4Reused(T) == Ids

\* uuid.uuid4(): an id no earlier call returned
uuid4(T) == Ids \ DOMAIN T

\* the dict create_task stores under task_id
NewTask(task_id, task_type, clock) ==
    [task_id |-> task_id, type |-> task_type, status |-> PENDING,
     message |-> "Task created and queued", progress |-> None,
     data |-> NoneData, error |-> None,
     created_at |-> clock, updated_at |-> clock, completed_at |-> NoTime]

\* tasks[task_id] = {...}
create_task(T, task_id, task_type, clock) ==
    [id \in DOMAIN T \cup {task_id} |->
        IF id = task_id THEN NewTask(task_id, task_type, clock) ELSE T[id]]

\* DictUpdate applying the status keyword alone
DictUpdateStatusOnly(d, kwargs, clock) ==
    [f \in DOMAIN d \cup DOMAIN kwargs |->
        IF f = "updated_at" THEN clock
        ELSE IF f = "status" /\ f \in DOMAIN kwargs THEN kwargs[f] ELSE d[f]]

\* dict.update(kwargs) followed by ["updated_at"] = datetime.now()
DictUpdate(d, kwargs, clock) ==
    [f \in DOMAIN d \cup DOMAIN kwargs |->
        IF f = "updated_at" THEN clock
        ELSE IF f \in DOMAIN kwargs THEN kwargs[f] ELSE d[f]]

\* update_task stamping updated_at on every record of the store
update_task_all(T, task_id, kwargs, clock) ==
    [id \in DOMAIN T |->
        IF id = task_id THEN DictUpdate(T[id], kwargs, clock)
        ELSE [T[id] EXCEPT !.updated_at = clock]]

\* update_task(task_id, **kwargs)
update_task(T, task_id, kwargs, clock) ==
    IF task_id \in DOMAIN T
    THEN [T EXCEPT ![task_id] = DictUpdate(@, kwargs, clock)]
    ELSE T

(***************************************************************************)
(* The background processors' functions and what differs between them      *)
(***************************************************************************)
ARTICLE_TASK == "process_url_to_article_task"
WECHAT_TASK == "process_url_to_wechat_task"

\* ProcessingUpdate without the status keyword
ProcessingUpdateNoStatus(func) ==
    [message |-> "Processing URL to article workflow",
     progress |-> "Step 1/3: Crawling URL"]

\* the kwargs of the first update_task of a processor
ProcessingUpdate(func) ==
    IF func = ARTICLE_TASK
    THEN [status |-> PROCESSING, message |-> "Processing URL to article workflow",
          progress |-> "Step 1/3: Crawling URL"]
    ELSE [status |-> PROCESSING, message |-> "Processing URL to WeChat workflow",
          progress |-> "Step 1/4: Crawling URL"]

\* ResultUpdate testing `not result.get("error")` instead of result.get("success")
ResultUpdateByError(func, result, clock) ==
    IF ~result.hasError \/ result.error = None
    THEN [status |-> COMPLETED, message |-> "Article created successfully",
          data |-> result, completed_at |-> clock]
    ELSE [status |-> FAILED, message |-> "Failed to create article",
          error |-> result.error, completed_at |-> clock]

\* ResultUpdate whose success branch leaves the status keyword out
ResultUpdateNoStatus(func, result, clock) ==
    IF result.success
    THEN [message |-> "Article created successfully", data |-> result,
          completed_at |-> clock]
    ELSE [status |-> FAILED, message |-> "Failed to create article",
          error |-> IF result.hasError THEN result.error ELSE "Unknown error",
          completed_at |-> clock]

\* ResultUpdate whose failure branch stores the workflow's result as data too
ResultUpdateKeepsData(func, result, clock) ==
    IF result.success
    THEN [status |-> COMPLETED, message |-> "Article created successfully",
          data |-> result, completed_at |-> clock]
    ELSE [status |-> FAILED, message |-> "Failed to create article", data |-> result,
          error |-> IF result.hasError THEN result.error ELSE "Unknown error",
          completed_at |-> clock]

\* the kwargs of the update_task after the workflow returned result
ResultUpdate(func, result, clock) ==
    IF result.success
    THEN [status |-> COMPLETED,
          message |-> IF func = ARTICLE_TASK THEN "Article created successfully"
                      ELSE IF result.publish_success = "True"
                           THEN "Article created and published successfully"
                           ELSE "Article created, but publishing failed",
          data |-> result, completed_at |-> clock]
    ELSE [status |-> FAILED,
          message |-> IF func = ARTICLE_TASK THEN "Failed to create article"
                      ELSE "Failed to process workflow",
          error |-> IF result.hasError THEN result.error ELSE "Unknown error",
          completed_at |-> clock]

\* ExceptUpdate without the completed_at keyword
ExceptUpdateNoStamp(exc, clock) ==
    [status |-> FAILED, message |-> "Task processing error", error |-> exc]

\* ExceptUpdate without the status keyword
ExceptUpdateKeepsStatus(exc, clock) ==
    [message |-> "Task processing error", error |-> exc, completed_at |-> clock]

\* the kwargs of the update_task in the processor's except branch
ExceptUpdate(exc, clock) ==
    [status |-> FAILED, message |-> "Task processing error", error |-> exc,
     completed_at |-> clock]

\* the locals of a processor that has not started
NewRun(func) ==
    [func |-> func, pc |-> "queued", results |-> <<>>, result |-> Unset, exc |-> None]

(***************************************************************************)
(* The stages.  What a stage returns depends on its input and on what the  *)
(* outside world answers (the web server, the model, the WeChat API); the  *)
(* answers are the inputs the actions choose.                              *)
(***************************************************************************)
\* services.crawler.crawl_url as CrawlerAgent.crawl sees it
CrawlOutcomes == {"page", "empty_page", "none", "raises"}

\* CrawlerAgent.crawl
crawl(o) ==
    CASE o = "page" -> StageDict("crawl", FALSE, FALSE, None, FALSE, "content")
      [] o = "empty_page" -> StageDict("crawl", FALSE, FALSE, None, FALSE, "no_content")
      [] o = "none" -> ErrorDict("crawl", "Failed to crawl URL")
      [] OTHER -> ErrorDict("crawl", "crawl exception")

\* asyncio.run(self.model(...)) and the text it returns:
\*   json             an object without the key "error"
\*   json_odd         such an object whose summary / key_points / themes are
\*                    not strings and lists of strings
\*   json_empty       the object {}
\*   json_error       an object with a key "error" holding a string
\*   json_error_null  an object with "error": null
\*   no_json          text without an object
\*   bad_json         text between braces that json.loads rejects
\*   raises           the call raises
ModelOutcomes == {"json", "json_odd", "json_empty", "json_error", "json_error_null",
                  "no_json", "bad_json", "raises"}

\* create_fallback_analysis reporting the failed model call as the stage's error
create_fallback_analysis_error ==
    StageDict("analyze", FALSE, TRUE, "Model call failed", FALSE, "fallback")

\* AnalyzerAgent._create_fallback_analysis
create_fallback_analysis ==
    StageDict("analyze", FALSE, FALSE, None, FALSE, "fallback")

\* analyze without the test `if not content`
analyze_ignores_empty(crawl_result, m) ==
    CASE m = "json" -> StageDict("analyze", FALSE, FALSE, None, FALSE, "json")
      [] m = "json_odd" -> StageDict("analyze", FALSE, FALSE, None, FALSE, "json_odd")
      [] m = "json_empty" -> StageDict("analyze", TRUE, FALSE, None, FALSE, "json")
      [] m = "json_error" -> StageDict("analyze", FALSE, TRUE, "model error text", FALSE, "json")
      [] m = "json_error_null" -> StageDict("analyze", FALSE, TRUE, None, FALSE, "json")
      [] OTHER -> create_fallback_analysis

\* AnalyzerAgent.analyze
analyze(crawl_result, m) ==
    IF crawl_result.payload = "no_content"
    THEN ErrorDict("analyze", "No content provided")
    ELSE CASE m = "json" -> StageDict("analyze", FALSE, FALSE, None, FALSE, "json")
           [] m = "json_odd" -> StageDict("analyze", FALSE, FALSE, None, FALSE, "json_odd")
           [] m = "json_empty" -> StageDict("analyze", TRUE, FALSE, None, FALSE, "json")
           [] m = "json_error" -> StageDict("analyze", FALSE, TRUE, "model error text", FALSE, "json")
           [] m = "json_error_null" -> StageDict("analyze", FALSE, TRUE, None, FALSE, "json")
           [] OTHER -> create_fallback_analysis

\* WriterAgent._create_fallback_article
create_fallback_article ==
    StageDict("write", FALSE, FALSE, None, FALSE, "fallback")

\* WriterAgent.write
write(analysis_result, m) ==
    IF analysis_result.falsy
    THEN ErrorDict("write", "No analysis result provided")
    ELSE IF analysis_result.payload = "json_odd"
    THEN ErrorDict("write", "write exception")
    ELSE CASE m \in {"json", "json_odd", "json_empty"} ->
                StageDict("write", FALSE, FALSE, None, FALSE, "json")
           [] m = "json_error" -> StageDict("write", FALSE, TRUE, "model error text", FALSE, "json")
           [] m = "json_error_null" -> StageDict("write", FALSE, TRUE, None, FALSE, "json")
           [] OTHER -> create_fallback_article

\* services.wechat.publish_to_wechat as PublisherAgent.publish sees it
PublishOutcomes == {"published", "refused", "raises"}

\* PublisherAgent.publish
publish(article, p) ==
    IF article.falsy
    THEN StageDict("publish", FALSE, TRUE, "No article provided", FALSE, "error")
    ELSE CASE p = "published" -> StageDict("publish", FALSE, FALSE, None, TRUE, "receipt")
           [] p = "refused" -> StageDict("publish", FALSE, FALSE, None, FALSE, "message")
           [] OTHER -> StageDict("publish", FALSE, TRUE, "publish exception", FALSE, "error")

(***************************************************************************)
(* agents/orchestrator.py                                                  *)
(***************************************************************************)
\* not d or "error" in d
StageFailed(d) == d.falsy \/ d.hasError

\* d.get("error", default) if d else default
error_msg(d, default) ==
    IF d.falsy THEN default ELSE IF d.hasError THEN d.error ELSE default

\* {"success": False, "error": error_msg, <the results so far>}
FailureResult(msg, results) ==
    [success |-> FALSE, hasError |-> TRUE, error |-> msg,
     publish_success |-> "absent", results |-> results]

\* {"success": True, <the results>} and, from url_to_wechat, "publish_success"
SuccessResult(results, publish_success) ==
    [success |-> TRUE, hasError |-> FALSE, error |-> None,
     publish_success |-> publish_success, results |-> results]

\* get_orchestrator(): the RuntimeError's text, or None when it returns
get_orchestrator(o) ==
    IF o = None THEN "Orchestrator not initialized" ELSE None

(***************************************************************************)
(* HTTP responses (models/schemas.py: TaskResponse, TaskStatusResponse,    *)
(* TaskResultResponse) and HTTPException                                   *)
(***************************************************************************)
Response(kind, code, task_id, status, message, progress, data, error, created_at, updated_at, completed_at) ==
    [kind |-> kind, code |-> code, task_id |-> task_id, status |-> status,
     message |-> message, progress |-> progress, data |-> data, error |-> error,
     created_at |-> created_at, updated_at |-> updated_at,
     completed_at |-> completed_at]

NoResponse ==
    Response("none", 0, NoTask, None, None, None, NoneData, None, NoTime, NoTime, NoTime)

HTTPException(status_code, detail) ==
    Response("HTTPException", status_code, NoTask, None, detail, None, NoneData, None,
             NoTime, NoTime, NoTime)

TaskResponse(task_id, clock) ==
    Response("TaskResponse", 200, task_id, PENDING, "Task created and processing", None,
             NoneData, None, clock, NoTime, NoTime)

TaskStatusResponse(task_id, task) ==
    Response("TaskStatusResponse", 200, task_id, task.status, task.message,
             task.progress, NoneData, None, task.created_at, task.updated_at, NoTime)

TaskResultResponse(task_id, task) ==
    Response("TaskResultResponse", 200, task_id, task.status, None, None, task.data,
             task.error, task.created_at, NoTime, task.completed_at)

(***************************************************************************)
(* State                                                                   *)
(***************************************************************************)
Init ==
    /\ tasks = [id \in {} |-> NoneData]
    /\ orchestrator \in {None, "ready"}
    /\ bg = [id \in {} |-> NoneData]
    /\ loop = NoTask
    /\ calls = [id \in {} |-> <<>>]
    /\ now = 0
    /\ response = NoResponse

\* background_tasks.add_task(func, task_id, request)
add_task(B, task_id, func) ==
    [id \in DOMAIN B \cup {task_id} |-> IF id = task_id THEN NewRun(func) ELSE B[id]]

\* Submit running the processor's first update before it answers
SubmitRunsInline(task_type, func) ==
    /\ \E task_id \in uuid4(tasks) :
        /\ tasks' = update_task(create_task(tasks, task_id, task_type, now), task_id,
                                ProcessingUpdate(func), now)
        /\ bg' = add_task(bg, task_id, func)
        /\ calls' = [id \in DOMAIN calls \cup {task_id} |->
                        IF id = task_id THEN <<>> ELSE calls[id]]
        /\ response' = TaskResponse(task_id, now)
    /\ UNCHANGED <<orchestrator, loop, now>>

\* the body shared by the handlers url_to_article and url_to_wechat
Submit(task_type, func) ==
    /\ \E task_id \in uuid4(tasks) :
        /\ tasks' = create_task(tasks, task_id, task_type, now)
        /\ bg' = add_task(bg, task_id, func)
        /\ calls' = [id \in DOMAIN calls \cup {task_id} |->
                        IF id = task_id THEN <<>> ELSE calls[id]]
        /\ response' = TaskResponse(task_id, now)
    /\ UNCHANGED <<orchestrator, loop, now>>

\* POST /api/url-to-article
url_to_article ==
    /\ loop = NoTask
    /\ Submit("url_to_article", ARTICLE_TASK)

\* url_to_wechat adding the processor of the other workflow
url_to_wechat_wrong_processor ==
    /\ loop = NoTask
    /\ Submit("url_to_wechat", ARTICLE_TASK)

\* POST /api/url-to-wechat
url_to_wechat ==
    /\ loop = NoTask
    /\ Submit("url_to_wechat", WECHAT_TASK)

\* unknown_pipeline creating a task all the same
unknown_pipeline_creates ==
    /\ loop = NoTask
    /\ Submit("unknown", ARTICLE_TASK)

\* POST for a workflow other than the two that @app.post registers
\* (/api/url-to-article, /api/url-to-wechat): no handler of main.py runs and
\* the request is answered 404
unknown_pipeline ==
    /\ loop = NoTask
    /\ response' = HTTPException(404, "Not Found")
    /\ UNCHANGED <<tasks, orchestrator, bg, loop, calls, now>>

\* get_task_status stamping the record it reads
get_task_status_touches(task_id) ==
    /\ loop = NoTask
    /\ response' = IF task_id \notin DOMAIN tasks
                   THEN HTTPException(404, "Task not found")
                   ELSE TaskStatusResponse(task_id, tasks[task_id])
    /\ tasks' = update_task(tasks, task_id, [f \in {} |-> None], now)
    /\ UNCHANGED <<orchestrator, bg, loop, calls, now>>

\* GET /api/task/{task_id}/status
get_task_status(task_id) ==
    /\ loop = NoTask
    /\ response' = IF task_id \notin DOMAIN tasks
                   THEN HTTPException(404, "Task not found")
                   ELSE TaskStatusResponse(task_id, tasks[task_id])
    /\ UNCHANGED <<tasks, orchestrator, bg, loop, calls, now>>

\* get_task_result answering for an unknown id as for a task just created
get_task_result_default(task_id) ==
    /\ loop = NoTask
    /\ response' = IF task_id \notin DOMAIN tasks
                   THEN TaskResultResponse(task_id, NewTask(task_id, None, now))
                   ELSE TaskResultResponse(task_id, tasks[task_id])
    /\ UNCHANGED <<tasks, orchestrator, bg, loop, calls, now>>

\* GET /api/task/{task_id}/result
get_task_result(task_id) ==
    /\ loop = NoTask
    /\ response' = IF task_id \notin DOMAIN tasks
                   THEN HTTPException(404, "Task not found")
                   ELSE TaskResultResponse(task_id, tasks[task_id])
    /\ UNCHANGED <<tasks, orchestrator, bg, loop, calls, now>>

(***************************************************************************)
(* A background processor, step by step                                    *)
(***************************************************************************)
\* history: stage was invoked and returned ret (Hung: it has not returned)
Hung == [hung |-> TRUE]
Record(t, stage, ret) ==
    [calls EXCEPT ![t] = Append(@, [stage |-> stage, ret |-> ret])]

\* process_start giving the event loop back after its update
process_start_yields(t) ==
    /\ t \in DOMAIN tasks
    /\ loop = NoTask
    /\ bg[t].pc = "queued"
    /\ tasks' = update_task(tasks, t, ProcessingUpdate(bg[t].func), now)
    /\ bg' = [bg EXCEPT ![t].pc = "get_orchestrator"]
    /\ response' = NoResponse
    /\ UNCHANGED <<orchestrator, loop, calls, now>>

\* the processor starts: update_task(task_id, status=PROCESSING, ...)
process_start(t) ==
    /\ t \in DOMAIN tasks
    /\ loop = NoTask
    /\ bg[t].pc = "queued"
    /\ tasks' = update_task(tasks, t, ProcessingUpdate(bg[t].func), now)
    /\ bg' = [bg EXCEPT ![t].pc = "get_orchestrator"]
    /\ loop' = t
    /\ response' = NoResponse
    /\ UNCHANGED <<orchestrator, calls, now>>

\* orchestrator = get_orchestrator()
process_get_orchestrator(t) ==
    /\ loop = t
    /\ bg[t].pc = "get_orchestrator"
    /\ LET e == get_orchestrator(orchestrator) IN
        bg' = IF e # None
              THEN [bg EXCEPT ![t].pc = "except", ![t].exc = e]
              ELSE [bg EXCEPT ![t].pc = "crawl"]
    /\ UNCHANGED <<tasks, orchestrator, loop, calls, now, response>>

\* AfterStage without the check of the stage's result
AfterStageUnchecked(run, d, rs, default, next) ==
    IF next = "return"
    THEN [run EXCEPT !.pc = "returned", !.results = rs,
                     !.result = IF StageFailed(d)
                                THEN FailureResult(error_msg(d, default), rs)
                                ELSE SuccessResult(rs, "absent")]
    ELSE [run EXCEPT !.pc = next, !.results = rs]

\* where url_to_article / url_to_wechat go after stage d returned, the results
\* so far being rs (d included)
AfterStage(run, d, rs, default, next) ==
    IF StageFailed(d)
    THEN [run EXCEPT !.pc = "returned", !.results = rs,
                     !.result = FailureResult(error_msg(d, default), rs)]
    ELSE IF next = "return"
    THEN [run EXCEPT !.pc = "returned", !.results = rs,
                     !.result = SuccessResult(rs, "absent")]
    ELSE [run EXCEPT !.pc = next, !.results = rs]

\* orch_crawl calling crawl a second time when the first call failed
orch_crawl_retries(t) ==
    /\ loop = t
    /\ bg[t].pc = "crawl"
    /\ \E o \in CrawlOutcomes :
        LET d == crawl(o) IN
        /\ bg' = IF StageFailed(d) /\ Len(calls[t]) = 0
                  THEN bg
                  ELSE [bg EXCEPT ![t] = AfterStage(@, d, <<d>>, "Failed to crawl URL", "analyze")]
        /\ calls' = Record(t, "crawl", d)
    /\ UNCHANGED <<tasks, orchestrator, loop, now, response>>

\* Step 1: crawl_result_dict = self.crawler.crawl(...)
orch_crawl(t) ==
    /\ loop = t
    /\ bg[t].pc = "crawl"
    /\ \E o \in CrawlOutcomes :
        LET d == crawl(o) IN
        /\ bg' = [bg EXCEPT ![t] = AfterStage(@, d, <<d>>, "Failed to crawl URL", "analyze")]
        /\ calls' = Record(t, "crawl", d)
    /\ UNCHANGED <<tasks, orchestrator, loop, now, response>>

\* Step 2: analysis_result_dict = self.analyzer.analyze(...)
orch_analyze(t) ==
    /\ loop = t
    /\ bg[t].pc = "analyze"
    /\ \E m \in ModelOutcomes :
        LET d == analyze(bg[t].results[1], m) IN
        /\ bg' = [bg EXCEPT ![t] = AfterStage(@, d, Append(@.results, d),
                                              "Failed to analyze content", "write")]
        /\ calls' = Record(t, "analyze", d)
    /\ UNCHANGED <<tasks, orchestrator, loop, now, response>>

\* Step 3: article_result_dict = self.writer.write(...); url_to_article returns,
\* and url_to_wechat goes on to publish when the workflow succeeded
orch_write(t) ==
    /\ loop = t
    /\ bg[t].pc = "write"
    /\ \E m \in ModelOutcomes :
        LET d == write(bg[t].results[2], m) IN
        /\ bg' = [bg EXCEPT ![t] = AfterStage(@, d, Append(@.results, d),
                                              "Failed to write article",
                                              IF @.func = WECHAT_TASK THEN "publish"
                                              ELSE "return")]
        /\ calls' = Record(t, "write", d)
    /\ UNCHANGED <<tasks, orchestrator, loop, now, response>>

\* PublishFailed testing the key "error" as the article stages are tested
PublishFailedByError(d) == d.falsy \/ d.hasError

\* not publish_result_dict or not publish_result_dict.get("success")
PublishFailed(d) == d.falsy \/ ~d.success

\* orch_publish returning the article workflow as it is when publishing failed
orch_publish_drops_result(t) ==
    /\ loop = t
    /\ bg[t].pc = "publish"
    /\ \E p \in PublishOutcomes :
        LET d == publish(bg[t].results[3], p)
            rs == IF PublishFailed(d) THEN bg[t].results ELSE Append(bg[t].results, d) IN
        /\ bg' = [bg EXCEPT ![t].pc = "returned", ![t].results = rs,
                            ![t].result = SuccessResult(rs, IF PublishFailed(d) THEN "False"
                                                            ELSE "True")]
        /\ calls' = Record(t, "publish", d)
    /\ UNCHANGED <<tasks, orchestrator, loop, now, response>>

\* Step 4 of url_to_wechat: publish_result_dict = self.publisher.publish(...)
orch_publish(t) ==
    /\ loop = t
    /\ bg[t].pc = "publish"
    /\ \E p \in PublishOutcomes :
        LET d == publish(bg[t].results[3], p)
            rs == Append(bg[t].results, d) IN
        /\ bg' = [bg EXCEPT ![t].pc = "returned", ![t].results = rs,
                            ![t].result = SuccessResult(rs, IF PublishFailed(d) THEN "False"
                                                            ELSE "True")]
        /\ calls' = Record(t, "publish", d)
    /\ UNCHANGED <<tasks, orchestrator, loop, now, response>>

\* a call to the model or to the WeChat API that does not return
stage_hangs(t) ==
    /\ loop = t
    /\ bg[t].pc \in {"analyze", "write", "publish"}
    /\ ~(bg[t].pc = "analyze" /\ bg[t].results[1].payload = "no_content")
    /\ bg' = [bg EXCEPT ![t].pc = "hung"]
    /\ calls' = Record(t, bg[t].pc, Hung)
    /\ UNCHANGED <<tasks, orchestrator, loop, now, response>>

\* the processor's coroutine is over: its locals are gone, the event loop is free
EndRun(t) == [bg EXCEPT ![t] = [NewRun(@.func) EXCEPT !.pc = "done"]]

\* process_finish removing the record of the task it completes
process_finish_evicts(t) ==
    /\ loop = t
    /\ bg[t].pc = "returned"
    /\ tasks' = [id \in DOMAIN tasks \ {t} |-> tasks[id]]
    /\ bg' = EndRun(t)
    /\ loop' = NoTask
    /\ UNCHANGED <<orchestrator, calls, now, response>>

\* if result.get("success"): update_task(COMPLETED ...) else: update_task(FAILED ...)
process_finish(t) ==
    /\ loop = t
    /\ bg[t].pc = "returned"
    /\ tasks' = update_task(tasks, t, ResultUpdate(bg[t].func, bg[t].result, now), now)
    /\ bg' = EndRun(t)
    /\ loop' = NoTask
    /\ UNCHANGED <<orchestrator, calls, now, response>>

\* process_except without the except branch: the exception ends the processor
process_except_escapes(t) ==
    /\ loop = t
    /\ bg[t].pc = "except"
    /\ bg' = EndRun(t)
    /\ loop' = NoTask
    /\ UNCHANGED <<tasks, orchestrator, calls, now, response>>

\* except Exception as e: update_task(FAILED, error=str(e) ...)
process_except(t) ==
    /\ loop = t
    /\ bg[t].pc = "except"
    /\ tasks' = update_task(tasks, t, ExceptUpdate(bg[t].exc, now), now)
    /\ bg' = EndRun(t)
    /\ loop' = NoTask
    /\ UNCHANGED <<orchestrator, calls, now, response>>

\* time passes
Tick ==
    /\ now < MaxClock
    /\ now' = now + 1
    /\ UNCHANGED <<tasks, orchestrator, bg, loop, calls, response>>

\* one step of the processor of task t
RunStep(t) ==
    \/ process_start(t)
    \/ process_get_orchestrator(t)
    \/ orch_crawl(t)
    \/ orch_analyze(t)
    \/ orch_write(t)
    \/ orch_publish(t)
    \/ process_finish(t)
    \/ process_except(t)

\* every stage invocation returns
NextReturning ==
    \/ url_to_article
    \/ url_to_wechat
    \/ unknown_pipeline
    \/ \E task_id \in Ids : get_task_status(task_id)
    \/ \E task_id \in Ids : get_task_result(task_id)
    \/ \E t \in Ids : process_start(t)
    \/ \E t \in Ids : process_get_orchestrator(t)
    \/ \E t \in Ids : orch_crawl(t)
    \/ \E t \in Ids : orch_analyze(t)
    \/ \E t \in Ids : orch_write(t)
    \/ \E t \in Ids : orch_publish(t)
    \/ \E t \in Ids : process_finish(t)
    \/ \E t \in Ids : process_except(t)
    \/ Tick

Next ==
    \/ NextReturning
    \/ \E t \in Ids : stage_hangs(t)

Spec == Init /\ [][Next]_vars

\* the event loop runs a processor that is ready to run: a started processor
\* holds the loop until its end, a queued one starts once the loop is free
Fairness == WF_vars(\E t \in Ids : RunStep(t))

\* fair scheduling, every stage invocation returning
LiveSpec == Init /\ [][NextReturning]_vars /\ Fairness

\* fair scheduling, a stage invocation possibly never returning
HangSpec == Init /\ [][Next]_vars /\ Fairness

(***************************************************************************)
(* The task store by itself: create_task and update_task called with any   *)
(* task id and any status, as the functions of main.py allow.              *)
(***************************************************************************)
\* what the caller of a store function gets back: these functions hold no raise,
\* so the caller sees a plain return (of task_id from create_task, of None from
\* update_task) and never an error
Returned(func, task_id) ==
    Response(func, 0, task_id, None, None, None, NoneData, None, NoTime, NoTime, NoTime)

\* the keyword arguments of the calls made to update_task
UpdateKwargs(clock) ==
    {[status |-> s] : s \in {PENDING, PROCESSING}}
        \cup {[status |-> s, completed_at |-> clock] : s \in {COMPLETED, FAILED}}

\* task_id = create_task(task_type)
call_create_task ==
    /\ \E task_type \in {"url_to_article", "url_to_wechat"} :
        \E task_id \in uuid4(tasks) :
            /\ tasks' = create_task(tasks, task_id, task_type, now)
            /\ response' = Returned("create_task", task_id)
    /\ UNCHANGED <<orchestrator, bg, loop, calls, now>>

\* update_task(task_id, **kwargs)
call_update_task ==
    /\ \E task_id \in Ids :
        \E kwargs \in UpdateKwargs(now) :
            /\ tasks' = update_task(tasks, task_id, kwargs, now)
            /\ response' = Returned("update_task", task_id)
    /\ UNCHANGED <<orchestrator, bg, loop, calls, now>>

StoreNext ==
    \/ call_create_task
    \/ call_update_task
    \/ Tick

StoreSpec == Init /\ [][StoreNext]_vars

(***************************************************************************)
(* Vocabulary of the properties                                            *)
(***************************************************************************)
\* the stages a workflow calls, in order (url_to_article: Crawl -> Analyze ->
\* Write; url_to_wechat: the same, then Publish)
Pipeline(task_type) ==
    IF task_type = "url_to_article"
    THEN <<"crawl", "analyze", "write">>
    ELSE <<"crawl", "analyze", "write", "publish">>

Terminal(status) == status \in {COMPLETED, FAILED}

\* the invocation c returned a result without an error
Succeeded(c) ==
    /\ c.ret # Hung
    /\ ~c.ret.falsy
    /\ ~c.ret.hasError
    /\ c.stage = "publish" => c.ret.success

\* the invocation c returned and reported an error
StageError(c) == c.ret # Hung /\ ~Succeeded(c)

\* the stage outputs a result response carries: data's results, none for None
ResultsOf(data) == IF data = NoneData THEN <<>> ELSE data.results

(***************************************************************************)
(* C1: the stored status of a task changes only along pending ->           *)
(* processing -> completed or failed: a new record starts pending, no      *)
(* update skips processing, goes back, or leaves completed / failed; and a *)
(* status poll answers with the stored status.                             *)
(***************************************************************************)
StatusStep(s, s2) ==
    \/ s2 = s
    \/ s = PENDING /\ s2 = PROCESSING
    \/ s = PROCESSING /\ Terminal(s2)

C1_StatusOrder ==
    [][/\ \A t \in DOMAIN tasks :
            t \in DOMAIN tasks' /\ StatusStep(tasks[t].status, tasks'[t].status)
       /\ \A t \in DOMAIN tasks' \ DOMAIN tasks : tasks'[t].status = PENDING
       /\ (response' # response /\ response'.kind = "TaskStatusResponse")
            => response'.status = tasks[response'.task_id].status]_vars

C1_Witness ==
    \E t, u \in DOMAIN tasks :
        /\ tasks[t].status = COMPLETED
        /\ tasks[u].status = FAILED
        /\ response.kind = "TaskStatusResponse" /\ response.status = FAILED

(***************************************************************************)
(* C2 as stated: a task is completed only if every stage of its pipeline   *)
(* succeeded, and a task that has ended is failed whenever one of its      *)
(* stages (crawl, analyze, write or publish) failed.                       *)
(***************************************************************************)
C2_CompletedIffAllStagesSucceeded ==
    \A t \in DOMAIN tasks :
        /\ tasks[t].status = COMPLETED =>
            /\ Len(calls[t]) = Len(Pipeline(tasks[t].type))
            /\ \A i \in 1..Len(calls[t]) : Succeeded(calls[t][i])
        /\ (Terminal(tasks[t].status) /\ \E i \in 1..Len(calls[t]) : StageError(calls[t][i]))
            => tasks[t].status = FAILED

(***************************************************************************)
(* C2 amended: a task is completed only if crawl, analyze and write        *)
(* succeeded (and, for url_to_wechat, publish was called and returned,     *)
(* successfully or not); a task that has ended is failed whenever crawl,   *)
(* analyze or write failed.                                                *)
(***************************************************************************)
C2_CompletedIffArticleStagesSucceeded ==
    \A t \in DOMAIN tasks :
        /\ tasks[t].status = COMPLETED =>
            /\ Len(calls[t]) = Len(Pipeline(tasks[t].type))
            /\ \A i \in 1..Len(calls[t]) :
                /\ calls[t][i].ret # Hung
                /\ calls[t][i].stage # "publish" => Succeeded(calls[t][i])
        /\ (/\ Terminal(tasks[t].status)
            /\ \E i \in 1..Len(calls[t]) :
                calls[t][i].stage # "publish" /\ StageError(calls[t][i]))
            => tasks[t].status = FAILED

C2_Witness ==
    \E t, u \in DOMAIN tasks :
        /\ tasks[t].status = COMPLETED /\ tasks[t].type = "url_to_wechat"
        /\ StageError(calls[t][4])
        /\ tasks[u].status = FAILED /\ Len(calls[u]) = 3 /\ StageError(calls[u][3])

(***************************************************************************)
(* C3 as stated: when a task is failed because its stage number i (from 0) *)
(* failed, the result response carries the outputs of the i stages before  *)
(* it, none of stage i or later, and an error that is not null.            *)
(***************************************************************************)
C3_FailedKeepsEarlierOutputs ==
    \A t \in DOMAIN tasks :
        (/\ tasks[t].status = FAILED
         /\ Len(calls[t]) >= 1
         /\ StageError(calls[t][Len(calls[t])]))
        => LET r == TaskResultResponse(t, tasks[t])
               i == Len(calls[t]) - 1 IN
           /\ Len(ResultsOf(r.data)) = i
           /\ \A k \in 1..i : ResultsOf(r.data)[k] = calls[t][k].ret
           /\ r.error # None

(***************************************************************************)
(* C4: the stages of a task are invoked in pipeline order, each only after *)
(* the one before it returned without an error; after an invocation that   *)
(* failed (or has not returned) there is none.                             *)
(***************************************************************************)
C4_StagesInOrder ==
    \A t \in DOMAIN tasks :
        /\ Len(calls[t]) <= Len(Pipeline(tasks[t].type))
        /\ \A i \in 1..Len(calls[t]) :
            /\ calls[t][i].stage = Pipeline(tasks[t].type)[i]
            /\ i < Len(calls[t]) => Succeeded(calls[t][i])

C4_Witness ==
    \E t, u \in DOMAIN tasks :
        /\ Len(calls[t]) = 4 /\ bg[t].pc = "done"
        /\ Len(calls[u]) = 2 /\ StageError(calls[u][2]) /\ bg[u].pc = "done"

(***************************************************************************)
(* C5: under fair scheduling, every stage invocation returning, every task *)
(* that was created ends completed or failed (so a client polling the      *)
(* status until it reads completed or failed stops).                       *)
(***************************************************************************)
C5_EveryTaskEnds ==
    \A id \in Ids :
        (id \in DOMAIN tasks) ~> (id \in DOMAIN tasks /\ Terminal(tasks[id].status))

C5_Witness ==
    /\ DOMAIN tasks = Ids
    /\ \A t \in DOMAIN tasks : Terminal(tasks[t].status)
    /\ response.kind = "TaskStatusResponse" /\ Terminal(response.status)

(***************************************************************************)
(* C6 as stated: a task whose stage invocation does not return is moved to *)
(* failed all the same.                                                    *)
(***************************************************************************)
C6_HungStageFails ==
    \A id \in Ids :
        (id \in DOMAIN bg /\ bg[id].pc = "hung")
            ~> (id \in DOMAIN tasks /\ tasks[id].status = FAILED)

(***************************************************************************)
(* C7: completed_at is None exactly while the status is pending or         *)
(* processing (so it is set by the update that makes the status completed  *)
(* or failed), and once set it never changes.                              *)
(***************************************************************************)
C7_CompletedAtSetOnce ==
    /\ [](\A t \in DOMAIN tasks :
            (tasks[t].completed_at = NoTime) <=> ~Terminal(tasks[t].status))
    /\ [][\A t \in DOMAIN tasks :
            tasks[t].completed_at # NoTime
                => tasks'[t].completed_at = tasks[t].completed_at]_vars

C7_Witness ==
    \E t, u \in DOMAIN tasks :
        /\ tasks[t].status = COMPLETED /\ tasks[t].completed_at = 0 /\ now = 1
        /\ tasks[u].status = FAILED /\ tasks[u].completed_at = 1

(***************************************************************************)
(* C8: the result of a completed task holds one output per stage of its    *)
(* pipeline, in order: 3 for url_to_article, 4 for url_to_wechat.          *)
(***************************************************************************)
C8_CompletedHasEveryOutput ==
    \A t \in DOMAIN tasks :
        tasks[t].status = COMPLETED =>
            LET rs == ResultsOf(TaskResultResponse(t, tasks[t]).data) IN
            /\ Len(rs) = IF tasks[t].type = "url_to_article" THEN 3 ELSE 4
            /\ \A i \in 1..Len(rs) : rs[i].stage = Pipeline(tasks[t].type)[i]

C8_Witness ==
    \E t, u \in DOMAIN tasks :
        /\ tasks[t].status = COMPLETED /\ tasks[t].type = "url_to_article"
        /\ tasks[u].status = COMPLETED /\ tasks[u].type = "url_to_wechat"
        /\ tasks[u].data.publish_success = "False"

(***************************************************************************)
(* C9 as stated: while a task is processing, the result response carries   *)
(* the outputs of exactly the stages that have completed so far.           *)
(***************************************************************************)
\* the outputs of the invocations of t that succeeded
CompletedOutputs(t) ==
    LET done == SelectSeq(calls[t], Succeeded) IN
    [i \in 1..Len(done) |-> done[i].ret]

StepOf(progress) ==
    IF progress \in {"Step 1/3: Crawling URL", "Step 1/4: Crawling URL"} THEN 1 ELSE 0

C10_ProgressFollowsStage ==
    \A t \in DOMAIN tasks :
        (tasks[t].status = PROCESSING
            /\ bg[t].pc \in {"crawl", "analyze", "write", "publish"})
        => StepOf(TaskStatusResponse(t, tasks[t]).progress) = Len(CompletedOutputs(t)) + 1

(***************************************************************************)
(* C11: a status or result query for an id that create_task never returned *)
(* is answered 404 and leaves the store as it was; an answer that is not   *)
(* 404 is only ever given for an id that is in the store.                  *)
(***************************************************************************)
QueryKinds == {"TaskStatusResponse", "TaskResultResponse"}

C11_UnknownIdNotFound ==
    [][/\ \A id \in Ids \ DOMAIN tasks :
            (get_task_status(id) \/ get_task_result(id))
                => /\ response'.kind = "HTTPException" /\ response'.code = 404
                   /\ tasks' = tasks
       /\ (response' # response /\ response'.kind = "HTTPException")
            => response'.code = 404 /\ tasks' = tasks
       /\ (response' # response /\ response'.kind \in QueryKinds)
            => response'.task_id \in DOMAIN tasks]_vars

C11_Witness ==
    /\ response.kind = "HTTPException" /\ response.code = 404
    /\ response.message = "Task not found"
    /\ Cardinality(DOMAIN tasks) = 1
    /\ \E t \in DOMAIN tasks : Terminal(tasks[t].status)

(***************************************************************************)
(* C12: a status or result poll changes no field of any record, answers    *)
(* with the stored status (and progress), and a poll that follows a poll   *)
(* of the same task with no update in between gets the same answer.        *)
(***************************************************************************)
C12_PollsReadOnly ==
    [][response'.kind \in QueryKinds =>
        LET id == response'.task_id IN
        /\ tasks' = tasks
        /\ response'.status = tasks[id].status
        /\ response'.kind = "TaskStatusResponse" => response'.progress = tasks[id].progress
        /\ (response.kind = response'.kind /\ response.task_id = id)
            => response' = response]_vars

C12_Witness ==
    /\ response.kind = "TaskStatusResponse"
    /\ response.status = COMPLETED
    /\ response.updated_at = 0
    /\ tasks[response.task_id].updated_at = 0
    /\ now = 1

(***************************************************************************)
(* C13: the answer to a submit request carries a new task id and status    *)
(* pending; when it is produced the record is stored with status pending,  *)
(* no stage of the task has been invoked and its processor has not started.*)
(***************************************************************************)
C13_SubmitAnswersBeforeStages ==
    [][(response' # response /\ response'.kind = "TaskResponse") =>
        LET id == response'.task_id IN
        /\ id \notin DOMAIN tasks
        /\ id \in DOMAIN tasks'
        /\ response'.status = PENDING
        /\ tasks'[id].status = PENDING
        /\ calls'[id] = <<>>
        /\ bg'[id].pc = "queued"]_vars

C13_Witness ==
    /\ response.kind = "TaskResponse"
    /\ tasks[response.task_id].status = PENDING
    /\ tasks[response.task_id].type = "url_to_wechat"
    /\ \E u \in DOMAIN tasks : tasks[u].status = COMPLETED

(***************************************************************************)
(* C14: a step that creates a task adds exactly one record, under an id    *)
(* that was not in the store, with status pending and data, error,         *)
(* progress and completed_at None; it changes no record that was there; no *)
(* record is ever removed or stored under another id than its own.         *)
(***************************************************************************)
C14_CreateInsertsFreshPending ==
    [][/\ DOMAIN tasks \subseteq DOMAIN tasks'
       /\ (response' # response /\ response'.kind = "TaskResponse")
            => /\ response'.task_id \notin DOMAIN tasks
               /\ Cardinality(DOMAIN tasks') = Cardinality(DOMAIN tasks) + 1
       /\ DOMAIN tasks' # DOMAIN tasks =>
            /\ Cardinality(DOMAIN tasks') = Cardinality(DOMAIN tasks) + 1
            /\ \A b \in DOMAIN tasks : tasks'[b] = tasks[b]
            /\ \A id \in DOMAIN tasks' \ DOMAIN tasks :
                /\ tasks'[id].task_id = id
                /\ tasks'[id].status = PENDING
                /\ tasks'[id].data = NoneData
                /\ tasks'[id].error = None
                /\ tasks'[id].progress = None
                /\ tasks'[id].completed_at = NoTime]_vars

C14_Witness ==
    /\ DOMAIN tasks = Ids
    /\ \E t, u \in DOMAIN tasks :
        /\ tasks[t].status = FAILED /\ tasks[t].created_at = 0
        /\ tasks[u].status = PENDING /\ tasks[u].created_at = 1

(***************************************************************************)
(* C15: a step that changes the record of one task leaves the record of    *)
(* every other task as it was.                                             *)
(***************************************************************************)
C15_UpdatesTouchOneRecord ==
    [][\A a, b \in DOMAIN tasks :
        (a # b /\ tasks'[a] # tasks[a]) => tasks'[b] = tasks[b]]_vars

C15_Witness ==
    \E t, u \in DOMAIN tasks :
        /\ tasks[t].status = FAILED /\ tasks[t].updated_at = 0
        /\ tasks[u].status = COMPLETED /\ tasks[u].updated_at = 1

(***************************************************************************)
(* C16 as stated: the run of a task never has to wait for the run of       *)
(* another task to end: while one task is processing, the processor of a   *)
(* task that is still queued can start.                                    *)
(***************************************************************************)
C16_RunsNeverWait ==
    \A t, u \in DOMAIN tasks :
        (t # u /\ tasks[t].status = PROCESSING /\ bg[u].pc = "queued")
            => ENABLED process_start(u)

(***************************************************************************)
(* C17: the record of a task is changed only by a step of that task's own  *)
(* processor, which holds the event loop, and each such step applies one   *)
(* whole update: status, data / error and completed_at change together,    *)
(* and no update is lost (the status is the one the processor wrote last). *)
(***************************************************************************)
C17_UpdatesAtomic ==
    /\ [](\A t \in DOMAIN tasks :
            /\ tasks[t].status = PENDING <=> bg[t].pc = "queued"
            /\ Terminal(tasks[t].status) <=> bg[t].pc = "done"
            /\ tasks[t].status = COMPLETED
                => tasks[t].data # NoneData /\ tasks[t].completed_at # NoTime
            /\ tasks[t].status = FAILED
                => tasks[t].data = NoneData /\ tasks[t].completed_at # NoTime
            /\ ~Terminal(tasks[t].status)
                => /\ tasks[t].data = NoneData /\ tasks[t].error = None
                   /\ tasks[t].completed_at = NoTime)
    /\ [][\A t \in DOMAIN tasks :
            tasks'[t] # tasks[t]
                => /\ loop = t \/ loop' = t
                   /\ bg'[t].pc # bg[t].pc
                   /\ tasks'[t].updated_at = now]_vars

C17_Witness ==
    \E t, u \in DOMAIN tasks :
        /\ tasks[t].status = COMPLETED /\ tasks[t].data # NoneData
        /\ tasks[u].status = FAILED /\ tasks[u].error = "No content provided"

(***************************************************************************)
(* C18 as stated: a call of update_task for an id that is not in the store *)
(* reports an error to its caller and leaves the store as it was.          *)
(***************************************************************************)
C18_UnknownIdUpdateFails ==
    [][(/\ response' # response
        /\ response'.kind = "update_task"
        /\ response'.task_id \notin DOMAIN tasks)
        => response'.error # None /\ tasks' = tasks]_vars

(***************************************************************************)
(* C19 as stated: the store refuses an update whose status is lower than   *)
(* the stored one in pending < processing < {completed, failed}, or that   *)
(* turns completed into failed or failed into completed: no call of        *)
(* update_task makes the stored status go back.                            *)
(***************************************************************************)
Rank(status) ==
    CASE status = PENDING -> 0
      [] status = PROCESSING -> 1
      [] OTHER -> 2

Regresses(s, s2) ==
    \/ Rank(s2) < Rank(s)
    \/ Terminal(s) /\ Terminal(s2) /\ s2 # s

C19_StoreRejectsRegression ==
    [][\A t \in DOMAIN tasks :
        ~Regresses(tasks[t].status, tasks'[t].status)]_vars

(***************************************************************************)
(* C20: in the run of a task no stage is invoked twice, whatever the       *)
(* stages return.                                                          *)
(***************************************************************************)
C20_NoStageTwice ==
    \A t \in DOMAIN calls :
        \A i, j \in 1..Len(calls[t]) :
            i # j => calls[t][i].stage # calls[t][j].stage

C20_Witness ==
    \E t, u \in DOMAIN tasks :
        /\ bg[t].pc = "done" /\ Len(calls[t]) = 4 /\ StageError(calls[t][4])
        /\ bg[u].pc = "done" /\ Len(calls[u]) = 1 /\ StageError(calls[u][1])

C22_TasksNeverRemoved ==
    /\ [](DOMAIN calls \subseteq DOMAIN tasks)
    /\ [][/\ DOMAIN tasks \subseteq DOMAIN tasks'
          /\ \A id \in DOMAIN calls :
                (get_task_status(id) \/ get_task_result(id))
                    => response'.kind \in QueryKinds /\ response'.task_id = id]_vars

C22_Witness ==
    /\ DOMAIN tasks = Ids
    /\ \A t \in DOMAIN tasks : bg[t].pc = "done"
    /\ response.kind = "TaskResultResponse"
    /\ response.status = FAILED

(***************************************************************************)
(* C23: a submission for a workflow that is not registered is answered     *)
(* with an error at once and creates no task; the store grows only by a    *)
(* submit that answers with a TaskResponse, and every stored task has the  *)
(* type url_to_article or url_to_wechat.                                   *)
(***************************************************************************)
RegisteredPipelines == {"url_to_article", "url_to_wechat"}

FellBack(c) == c.ret # Hung /\ c.ret.payload = "fallback"

C25_ModelFailureFailsStage ==
    \A t \in DOMAIN tasks :
        \A i \in 1..Len(calls[t]) :
            FellBack(calls[t][i]) =>
                /\ StageError(calls[t][i])
                /\ bg[t].pc = "done" => tasks[t].status = FAILED /\ Len(calls[t]) = i

(***************************************************************************)
(* C25 amended: a stage whose model call failed or answered with text that *)
(* is not JSON returns fallback content without an error; the run goes on  *)
(* to the next stage, and after a write that fell back the task ends       *)
(* completed.                                                              *)
(***************************************************************************)
C25_ModelFailureFallsBack ==
    \A t \in DOMAIN tasks :
        \A i \in 1..Len(calls[t]) :
            FellBack(calls[t][i]) =>
                /\ Succeeded(calls[t][i])
                /\ bg[t].pc = "done"
                    => /\ Len(calls[t]) > i \/ tasks[t].status = COMPLETED
                       /\ calls[t][i].stage = "write" => tasks[t].status = COMPLETED

C25_Witness ==
    \E t \in DOMAIN tasks :
        /\ bg[t].pc = "done" /\ tasks[t].status = COMPLETED
        /\ tasks[t].type = "url_to_article"
        /\ FellBack(calls[t][2]) /\ FellBack(calls[t][3])

(***************************************************************************)
(* C26: when crawl, analyze and write succeeded and publish fails, the     *)
(* url_to_wechat workflow returns success with publish_success false and   *)
(* the four results, and the task ends completed with that as its data.    *)
(***************************************************************************)
\* what the invocations of t returned, in order
Returns(t) == [i \in 1..Len(calls[t]) |-> calls[t][i].ret]

C26_PublishFailureCompletes ==
    \A t \in DOMAIN tasks :
        (Len(calls[t]) = 4 /\ StageError(calls[t][4])) =>
            /\ bg[t].pc \in {"returned", "done"}
            /\ bg[t].pc = "returned" =>
                /\ bg[t].result.success
                /\ bg[t].result.publish_success = "False"
                /\ bg[t].result.results = Returns(t)
            /\ bg[t].pc = "done" =>
                /\ tasks[t].status = COMPLETED
                /\ tasks[t].error = None
                /\ tasks[t].data.success
                /\ tasks[t].data.publish_success = "False"
                /\ tasks[t].data.results = Returns(t)

C26_Witness ==
    \E t \in DOMAIN tasks :
        /\ tasks[t].status = COMPLETED
        /\ Len(calls[t]) = 4 /\ calls[t][4].ret.payload = "message"
        /\ tasks[t].data.publish_success = "False"
        /\ Len(tasks[t].data.results) = 4

(***************************************************************************)
(* C27: from the update that makes a task processing to its last update no *)
(* request is handled and no other task's processor runs: every step taken *)
(* while a task is processing leaves the response, the set of tasks and    *)
(* every other task as they were; at most one task is processing; no poll  *)
(* is answered with status processing.                                     *)
(***************************************************************************)
C27_RunUninterrupted ==
    /\ [](response.kind \in QueryKinds => response.status # PROCESSING)
    /\ [](\A t, u \in DOMAIN tasks :
            (tasks[t].status = PROCESSING /\ tasks[u].status = PROCESSING) => t = u)
    /\ [][\A t \in DOMAIN tasks :
            tasks[t].status = PROCESSING =>
                /\ response' = response
                /\ DOMAIN tasks' = DOMAIN tasks
                /\ \A u \in DOMAIN tasks \ {t} : bg'[u] = bg[u] /\ tasks'[u] = tasks[u]]_vars

C27_Witness ==
    \E t, u \in DOMAIN tasks :
        /\ loop = t /\ bg[t].pc = "publish" /\ tasks[t].status = PROCESSING
        /\ bg[u].pc = "queued" /\ tasks[u].status = PENDING
        /\ response = NoResponse

(***************************************************************************)
(* C28: the data of a task is not None exactly when the task is completed; *)
(* data and error are never both set; both are None while the task is      *)
(* pending or processing.                                                  *)
(***************************************************************************)
C28_DataIffCompleted ==
    \A t \in DOMAIN tasks :
        /\ tasks[t].data # NoneData <=> tasks[t].status = COMPLETED
        /\ ~(tasks[t].data # NoneData /\ tasks[t].error # None)
        /\ tasks[t].status \in {PENDING, PROCESSING}
            => tasks[t].data = NoneData /\ tasks[t].error = None

C28_Witness ==
    \E t, u \in DOMAIN tasks :
        /\ tasks[t].status = COMPLETED /\ tasks[t].data # NoneData
        /\ tasks[u].status = FAILED /\ tasks[u].error = "Failed to crawl URL"

(***************************************************************************)
(* C29: every stored task has one processor, the one of its type; a        *)
(* processor that has started is never queued again and one that is over   *)
(* does nothing more; a step that changes a task's record is a step of     *)
(* that task's processor and of no other.                                  *)
(***************************************************************************)
C29_OneRunPerTask ==
    /\ [](/\ DOMAIN bg = DOMAIN tasks
          /\ \A t \in DOMAIN tasks :
                bg[t].func = IF tasks[t].type = "url_to_article" THEN ARTICLE_TASK
                             ELSE WECHAT_TASK)
    /\ [][\A t \in DOMAIN tasks :
            /\ bg[t].pc # "queued" => bg'[t].pc # "queued"
            /\ bg[t].pc = "done" => bg'[t] = bg[t] /\ tasks'[t] = tasks[t]
            /\ tasks'[t] # tasks[t]
                => /\ bg'[t] # bg[t]
                   /\ \A u \in DOMAIN tasks \ {t} : bg'[u] = bg[u]]_vars

C29_Witness ==
    \E t, u \in DOMAIN tasks :
        /\ tasks[t].type = "url_to_wechat" /\ bg[t].pc = "done" /\ Len(calls[t]) = 4
        /\ tasks[u].type = "url_to_article" /\ bg[u].pc = "done" /\ Len(calls[u]) = 3

(***************************************************************************)
(* C30: after a crawl that succeeded with empty content, analyze returns   *)
(* the error 'No content provided' (the model is not called, so the call   *)
(* cannot fail to return), write is not invoked and the task ends failed   *)
(* with that error.                                                        *)
(***************************************************************************)
\* the crawl of t returned a page with empty content
EmptyContent(t) ==
    /\ Len(calls[t]) >= 1
    /\ Succeeded(calls[t][1])
    /\ calls[t][1].ret.payload = "no_content"

C30_EmptyContentFailsAnalyze ==
    \A t \in DOMAIN tasks :
        EmptyContent(t) =>
            /\ Len(calls[t]) <= 2
            /\ Len(calls[t]) = 2 =>
                /\ calls[t][2].stage = "analyze"
                /\ calls[t][2].ret # Hung
                /\ calls[t][2].ret.hasError
                /\ calls[t][2].ret.error = "No content provided"
            /\ bg[t].pc # "hung"
            /\ bg[t].pc = "done" =>
                /\ Len(calls[t]) = 2
                /\ tasks[t].status = FAILED
                /\ tasks[t].error = "No content provided"

C30_Witness ==
    \E t \in DOMAIN tasks :
        /\ EmptyContent(t)
        /\ bg[t].pc = "done"
        /\ tasks[t].type = "url_to_wechat"
        /\ tasks[t].status = FAILED /\ tasks[t].error = "No content provided"

TypeOk ==
    /\ DOMAIN tasks \subseteq Ids
    /\ DOMAIN bg = DOMAIN tasks
    /\ loop \in Ids \cup {NoTask}
    /\ now \in 0..MaxClock
    /\ \A t \in DOMAIN tasks : tasks[t].status \in TaskStatus

====
